---- MODULE Spec2Model ----
(***************************************************************************)
(* Model of flask_rbac_icdc/rbac.py: the RBAC policy store (load_config),  *)
(* the request decorator RBAC.allow(action) and Subject.filters.           *)
(*                                                                         *)
(* Python strings are sequences of one-character strings, so that upper()  *)
(* and rsplit(".", 1) are computed and not assumed.  An optional value is  *)
(* None (the empty tuple) or Some(x) (a one-element tuple).  A Python dict *)
(* whose iteration order matters is a sequence of <<key, value>> pairs in  *)
(* insertion order.  A call that may raise yields a record whose exc field *)
(* is "none" or the exception class.                                       *)
(***************************************************************************)
EXTENDS Integers, Sequences, FiniteSets, TLC

VARIABLES
  policy,           \* RBAC.policy: ordered dict role key -> resource map
  roles,            \* RBAC._roles: the Roles enum, member name -> member value
  account_model,    \* RBAC._account_model: account name -> account record
  use_operator_group, \* RBAC._use_operator_group
  enum_empty_call,  \* the exception the interpreter's Enum raises on a member lookup in a member-less enum
  loaded,           \* history: policy and roles as load_config left them
  last,             \* the last request handled by a wrapped endpoint, with its outcome
  fres,             \* the last Subject.filters call made by the handler, with its result
  memo              \* history: an earlier request remembered with its outcome

vars == <<policy, roles, account_model, use_operator_group, enum_empty_call,
          loaded, last, fres, memo>>

\* ---------------------------------------------------------------- values

None == <<>>
Some(x) == <<x>>

\* Python truthiness of an optional string: None and "" are falsy.
Falsy(opt) == opt = None \/ opt = Some(<<>>)

Range(s) == {s[i] : i \in DOMAIN s}

\* str.upper() on one character.
UpperChar(c) ==
  CASE c = "a" -> "A" [] c = "d" -> "D" [] c = "u" -> "U" [] c = "s" -> "S"
    [] c = "o" -> "O" [] c = "p" -> "P" [] c = "x" -> "X"
    [] OTHER -> c

\* str.upper()
upper(s) == [i \in DOMAIN s |-> UpperChar(s[i])]

\* dict.get(key, default) on an ordered dict.
dict_get(d, k, default) ==
  IF \E i \in DOMAIN d : d[i][1] = k
    THEN d[CHOOSE i \in DOMAIN d : d[i][1] = k][2]
    ELSE default

\* dict.keys(), in insertion order.
dict_keys(d) == [i \in DOMAIN d |-> d[i][1]]

\* ------------------------------------------------------- the configurations

ad == <<"a", "d">>
Ad == <<"A", "d">>
us == <<"u", "s">>
op == <<"o", "p">>

res_u == <<"u">>
res_uv == <<"u", ".", "v">>
res_x == <<"x">>
perm_r == <<"r">>
perm_w == <<"w">>

\* One resource entry: a mapping with the keys the YAML document gives it.
Entry(perms, filts) == [k \in {"permissions", "filters"} |->
                          IF k = "permissions" THEN perms ELSE filts]
EntryNoPermissions(filts) == [k \in {"filters"} |-> filts]
EntryNoFilters(perms) == [k \in {"permissions"} |-> perms]

NoFilters == [k \in {} |-> "owner"]
OwnerFilter == [k \in {"owner_id"} |-> "owner"]
AccountFilters == [k \in {"account_id", "tenant"} |->
                     IF k = "account_id" THEN "account_id" ELSE "account_name"]
ObjectFilters == [k \in {"acc", "role"} |-> IF k = "acc" THEN "account" ELSE "role"]
PolicyFilter == [k \in {"scope"} |-> "policy"]
MethodFilter == [k \in {"f"} |-> "filters"]
BogusFilter == [k \in {"owner_id", "z"} |-> IF k = "z" THEN "bogus" ELSE "owner"]

AdminResources == (res_u :> Entry(<<perm_r, perm_w>>, OwnerFilter))
                  @@ (res_uv :> Entry(<<perm_r>>, AccountFilters))
UserResources == (res_u :> Entry(<<perm_r>>, ObjectFilters))
OddResources == (res_u :> EntryNoPermissions(PolicyFilter))
                @@ (res_uv :> EntryNoFilters(<<perm_r>>))
                @@ (res_x :> Entry(<<perm_r>>, BogusFilter))
MethodResources == (res_u :> Entry(<<perm_w>>, MethodFilter))
NoResources == [o \in {} |-> NoFilters]

\* The parsed YAML documents the model loads.
Configs == {
  [k \in {} |-> <<>>],
  [k \in {"roles"} |-> <<>>],
  [k \in {"roles"} |-> << <<ad, AdminResources>> >>],
  [k \in {"roles"} |-> << <<ad, AdminResources>>, <<us, UserResources>> >>],
  [k \in {"roles"} |-> << <<ad, AdminResources>>, <<Ad, UserResources>> >>],
  [k \in {"roles"} |-> << <<us, OddResources>>, <<ad, NoResources>> >>],
  [k \in {"roles"} |-> << <<us, MethodResources>> >>] }

\* ------------------------------------------------------------ load_config

\* config.get("roles", {})
config_roles(config) == IF "roles" \in DOMAIN config THEN config["roles"] ELSE <<>>

\* {role.upper(): role for role in keys}: a later key replaces the value an
\* earlier key left under the same upper-cased name.
RECURSIVE roles_dict(_)
roles_dict(keys) ==
  IF keys = <<>> THEN [n \in {} |-> <<>>]
  ELSE LET k == keys[Len(keys)]
           before == roles_dict(SubSeq(keys, 1, Len(keys) - 1))
       IN [n \in DOMAIN before \cup {upper(k)} |->
             IF n = upper(k) THEN k ELSE before[n]]

\* load_config: the policy it stores and the Roles enum it returns.
load_config(config) ==
  LET pol == config_roles(config)
  IN [policy |-> pol, roles |-> roles_dict(dict_keys(pol))]

\* ---------------------------------------------------------- the accounts

al == <<"a", "l">>
bo == <<"b", "o">>
gh == <<"g", "h">>

Account(i, n, g) == [id |-> i, name |-> n, group |-> g]

AccountModels == {
  (al :> Account(1, al, "operators")),
  (al :> Account(1, al, "restricted")) @@ (bo :> Account(2, bo, "operators")) }

\* RbacAccount.get_by_name
get_by_name(model, account_name) ==
  IF account_name \in DOMAIN model THEN Some(model[account_name]) ELSE None

denied == <<"d", "e", "n", "y">>

\* RbacAccount.subject_role: an operator account maps the operator token to the
\* admin role; a restricted account is refused the admin role.
subject_role(account, x_auth_role) ==
  IF account.group = "operators"
    THEN [exc |-> "none", val |-> IF x_auth_role = op THEN ad ELSE x_auth_role]
    ELSE IF x_auth_role = ad
      THEN [exc |-> "PermissionException", val |-> denied]
      ELSE [exc |-> "none", val |-> x_auth_role]

\* ------------------------------------------------------------- the enum

\* self._roles(value): the member of the Roles enum that carries value.  An enum
\* without members raises what the interpreter's enum module raises for it.
roles_call(rs, empty_exc, value) ==
  IF DOMAIN rs = {} THEN [exc |-> empty_exc, val |-> None]
  ELSE IF \E n \in DOMAIN rs : rs[n] = value
    THEN [exc |-> "none",
          val |-> Some([name |-> CHOOSE n \in DOMAIN rs : rs[n] = value,
                        value |-> value])]
    ELSE [exc |-> "ValueError", val |-> None]

\* ------------------------------------------------------------- Subject

\* Subject.__init__
Subject_init(account, role, owner, pol) ==
  [account |-> account, account_id |-> account.id, account_name |-> account.name,
   role |-> role, owner |-> owner, policy |-> pol]

\* The names getattr resolves on a Subject: its instance attributes and its method.
SubjectAttrs == {"account", "account_id", "account_name", "role", "owner",
                 "policy", "filters"}

\* A faulty getattr: owner yields the account name.
getattr_owner_is_account(subject, name) ==
  CASE name = "account" -> <<"RbacAccount", subject.account>>
    [] name = "account_id" -> <<"int", subject.account_id>>
    [] name = "account_name" -> <<"str", subject.account_name>>
    [] name = "role" -> <<"Roles", subject.role>>
    [] name = "owner" -> <<"str", subject.account_name>>
    [] name = "policy" -> <<"dict", subject.policy>>
    [] name = "filters" -> <<"method", "Subject.filters">>

\* getattr(subject, name), the value tagged with its Python type.
getattr(subject, name) ==
  CASE name = "account" -> <<"RbacAccount", subject.account>>
    [] name = "account_id" -> <<"int", subject.account_id>>
    [] name = "account_name" -> <<"str", subject.account_name>>
    [] name = "role" -> <<"Roles", subject.role>>
    [] name = "owner" -> <<"Optional[str]", subject.owner>>
    [] name = "policy" -> <<"dict", subject.policy>>
    [] name = "filters" -> <<"method", "Subject.filters">>

\* Subject.filters
filters(subject, object_name) ==
  IF object_name \notin DOMAIN subject.policy
    THEN [exc |-> "KeyError", val |-> None]
  ELSE IF "filters" \notin DOMAIN subject.policy[object_name]
    THEN [exc |-> "KeyError", val |-> None]
  ELSE LET f == subject.policy[object_name]["filters"]
       IN IF \E k \in DOMAIN f : f[k] \notin SubjectAttrs
            THEN [exc |-> "AttributeError", val |-> None]
            ELSE [exc |-> "none",
                  val |-> Some([k \in DOMAIN f |-> getattr(subject, f[k])])]

\* ------------------------------------------------------- _check_permission

\* action.rsplit(".", 1)
rsplit(s) ==
  IF \A i \in DOMAIN s : s[i] # "." THEN <<s>>
  ELSE LET i == CHOOSE j \in DOMAIN s :
                  s[j] = "." /\ \A k \in DOMAIN s : k > j => s[k] # "."
       IN <<SubSeq(s, 1, i - 1), SubSeq(s, i + 1, Len(s))>>

MsgForbidden(action, role) ==
  <<"Access to ">> \o action \o <<" forbidden for role ">> \o role.name

\* A faulty _check_permission: any permission of a known resource passes.
check_permission_resource_only(subject, action) ==
  LET parts == rsplit(action)
  IN IF Len(parts) # 2
       THEN [exc |-> "ValueError", code |-> 0, body |-> <<>>]
     ELSE IF parts[1] \notin DOMAIN subject.policy
       THEN [exc |-> "abort", code |-> 403,
             body |-> MsgForbidden(action, subject.role)]
       ELSE [exc |-> "none", code |-> 0, body |-> <<>>]

\* RBAC._check_permission: returns, aborts with a status, or raises.
check_permission(subject, action) ==
  LET parts == rsplit(action)
  IN IF Len(parts) # 2
       THEN [exc |-> "ValueError", code |-> 0, body |-> <<>>]
     ELSE LET requested_object == parts[1]
              requested_permission == parts[2]
          IN IF requested_object \notin DOMAIN subject.policy
               THEN [exc |-> "abort", code |-> 403,
                     body |-> MsgForbidden(action, subject.role)]
             ELSE IF "permissions" \notin DOMAIN subject.policy[requested_object]
               THEN [exc |-> "KeyError", code |-> 0, body |-> <<>>]
             ELSE IF requested_permission
                       \notin Range(subject.policy[requested_object]["permissions"])
               THEN [exc |-> "abort", code |-> 403,
                     body |-> MsgForbidden(action, subject.role)]
               ELSE [exc |-> "none", code |-> 0, body |-> <<>>]

\* ------------------------------------------------------------- RBAC.allow

MsgAccountRequired == <<"Account name is required in x-auth-account header.">>
MsgAccountNotFound == <<"Invalid auth parameters. Account name is not found.">>
MsgRoleRequired == <<"Role name is required in x-auth-role header.">>
MsgRoleNotFound == <<"Invalid auth parameters. Role name is not found.">>

\* request.headers.get(name)
headers_get(headers, name) ==
  IF name \in DOMAIN headers THEN Some(headers[name]) ELSE None

\* abort(code, message): the response is the status; the handler is not called.
Abort(code, message, tr) ==
  [status |-> code, body |-> message, exc |-> "none", subject |-> None, trace |-> tr]

\* An exception that leaves wrap: the host answers 500; the handler is not called.
Unhandled(e, tr) ==
  [status |-> 500, body |-> <<>>, exc |-> e, subject |-> None, trace |-> tr]

\* func(*args, subject=subject)
Handled(subject, tr) ==
  [status |-> 200, body |-> <<>>, exc |-> "none", subject |-> Some(subject),
   trace |-> tr \o <<"func">>]

\* The RBAC object the decorator closes over.
self == [policy |-> policy, roles |-> roles, account_model |-> account_model,
         use_operator_group |-> use_operator_group,
         enum_empty_call |-> enum_empty_call]

\* wrap, lines 298-303: the policy of the role, the Subject, the permission check.
wrap_subject(rbac, req, account, owner, role, tr) ==
  LET pol == dict_get(rbac.policy, role.value, [o \in {} |-> <<>>])
      subject == Subject_init(account, role, owner, pol)
      chk == check_permission(subject, req.action)
      tr3 == tr \o <<"policy.get", "Subject", "_check_permission">>
  IN IF chk.exc = "abort" THEN Abort(chk.code, chk.body, tr3)
     ELSE IF chk.exc # "none" THEN Unhandled(chk.exc, tr3)
     ELSE Handled(subject, tr3)

\* A faulty role resolution: subject_role is asked whatever the flag says.
x_auth_role_always_resolved(rbac, account, role_name) ==
  subject_role(account, role_name) @@ [called |-> TRUE]

\* wrap, lines 288-290: the role value to look up.
x_auth_role_of(rbac, account, role_name) ==
  IF rbac.use_operator_group
    THEN subject_role(account, role_name) @@ [called |-> TRUE]
    ELSE [exc |-> "none", val |-> role_name, called |-> FALSE]

\* wrap, lines 287-296: resolve the role and look it up in the enum.
wrap_role(rbac, req, account, owner, role_name, tr) ==
  LET x == x_auth_role_of(rbac, account, role_name)
      tr1 == IF x.called THEN tr \o <<"subject_role">> ELSE tr
  IN IF x.exc = "PermissionException" THEN Abort(403, x.val, tr1)
     ELSE LET role == roles_call(rbac.roles, rbac.enum_empty_call, x.val)
              tr2 == tr1 \o <<"Roles">>
          IN IF role.exc = "ValueError" THEN Abort(401, MsgRoleNotFound, tr2)
             ELSE IF role.exc # "none" THEN Unhandled(role.exc, tr2)
             ELSE wrap_subject(rbac, req, account, owner, role.val[1], tr2)

\* A faulty order: the role header is checked before the account is looked up.
wrap_account_role_first(rbac, req, account_name) ==
  LET role_name == headers_get(req.headers, "x-auth-role")
  IN IF Falsy(role_name) THEN Abort(401, MsgRoleRequired, <<>>)
     ELSE LET account == get_by_name(rbac.account_model, account_name)
              tr == <<"get_by_name">>
          IN IF account = None THEN Abort(401, MsgAccountNotFound, tr)
             ELSE wrap_role(rbac, req, account[1],
                            headers_get(req.headers, "x-auth-user"), role_name[1], tr)

\* wrap, lines 277-285: the account, the owner, the role header.
wrap_account(rbac, req, account_name) ==
  LET account == get_by_name(rbac.account_model, account_name)
      tr == <<"get_by_name">>
  IN IF account = None THEN Abort(401, MsgAccountNotFound, tr)
     ELSE LET owner == headers_get(req.headers, "x-auth-user")
              role_name == headers_get(req.headers, "x-auth-role")
          IN IF Falsy(role_name) THEN Abort(401, MsgRoleRequired, tr)
             ELSE wrap_role(rbac, req, account[1], owner, role_name[1], tr)

\* wrap: the whole decorated call, from the headers to the handler or the abort.
wrap(rbac, req) ==
  LET account_name == headers_get(req.headers, "x-auth-account")
  IN IF Falsy(account_name) THEN Abort(401, MsgAccountRequired, <<>>)
     ELSE wrap_account(rbac, req, account_name[1])

\* A faulty wrap: a role token the request presents is added to the enum.
wrap_state_adds_role(rbac, req) ==
  [policy |-> rbac.policy,
   roles |-> IF "x-auth-role" \in DOMAIN req.headers
               THEN [n \in DOMAIN rbac.roles \cup {upper(req.headers["x-auth-role"])} |->
                       IF n = upper(req.headers["x-auth-role"])
                         THEN req.headers["x-auth-role"] ELSE rbac.roles[n]]
               ELSE rbac.roles]

\* What wrap leaves of the RBAC object: it assigns neither policy nor _roles.
wrap_state(rbac, req) == [policy |-> rbac.policy, roles |-> rbac.roles]

\* ------------------------------------------------------------ the requests

MaxSince == 2

o1 == <<"o", "1">>

AccountHeaders == {None, Some(<<>>), Some(al), Some(bo), Some(gh)}
RoleHeaders == {None, Some(<<>>), Some(ad), Some(Ad), Some(us), Some(op)}
UserHeaders == {None, Some(o1)}

act_u_r == <<"u", ".", "r">>
act_u_w == <<"u", ".", "w">>
act_uv_r == <<"u", ".", "v", ".", "r">>
act_x_r == <<"x", ".", "r">>
act_nodot == <<"u", "r">>

\* The actions the endpoints are decorated with.
Actions == {act_u_r, act_u_w, act_uv_r, act_x_r, act_nodot}

\* request.headers: the headers the request carries.
MkHeaders(a, r, u) ==
  [n \in ((IF a = None THEN {} ELSE {"x-auth-account"})
          \cup (IF r = None THEN {} ELSE {"x-auth-role"})
          \cup (IF u = None THEN {} ELSE {"x-auth-user"})) |->
     IF n = "x-auth-account" THEN a[1] ELSE IF n = "x-auth-role" THEN r[1] ELSE u[1]]

Requests == {[headers |-> MkHeaders(a, r, u), action |-> act] :
               a \in AccountHeaders, r \in RoleHeaders, u \in UserHeaders,
               act \in Actions}

\* The requests of the runs that compare two calls.
IdemRequests == {[headers |-> MkHeaders(a, r, Some(o1)), action |-> act] :
                   a \in {None, Some(al)},
                   r \in {Some(ad), Some(us), Some(op)},
                   act \in {act_u_r, act_u_w, act_nodot}}

\* The resources a handler asks filters for.
FilterObjects == {res_u, res_uv, res_x, <<"z">>}

\* ------------------------------------------------------------ the machine

\* RBAC.__init__: the state after construction.
Init ==
  \E config \in Configs :
    /\ policy = load_config(config).policy
    /\ roles = load_config(config).roles
    /\ loaded = load_config(config)
    /\ account_model \in AccountModels
    /\ use_operator_group \in BOOLEAN
    /\ enum_empty_call \in {"ValueError", "TypeError"}
    /\ last = None
    /\ fres = None
    /\ memo = None

\* One request through a decorated endpoint.
Handle(req) ==
  /\ last' = Some([req |-> req, out |-> wrap(self, req)])
  /\ policy' = wrap_state(self, req).policy
  /\ roles' = wrap_state(self, req).roles
  /\ fres' = None
  /\ UNCHANGED <<account_model, use_operator_group, enum_empty_call, loaded>>

Request ==
  \E req \in Requests : Handle(req) /\ UNCHANGED memo

\* The handler, holding the Subject it was given, asks for the filters of a resource.
Filters ==
  /\ last # None
  /\ last[1].out.subject # None
  /\ \E o \in FilterObjects :
       fres' = Some([object_name |-> o,
                     res |-> filters(last[1].out.subject[1], o)])
  /\ UNCHANGED <<policy, roles, account_model, use_operator_group,
                 enum_empty_call, loaded, last, memo>>

Next == Request \/ Filters

Spec == Init /\ [][Next]_vars

\* A request whose inputs and outcome are remembered for comparison.
Remember ==
  /\ memo = None
  /\ \E req \in IdemRequests :
       /\ Handle(req)
       /\ memo' = Some([req |-> req, out |-> wrap(self, req), since |-> 0])

\* A later request; since counts the requests handled after the remembered one.
RequestIdem ==
  /\ IF memo = None THEN TRUE ELSE memo[1].since < MaxSince
  /\ \E req \in IdemRequests :
       /\ Handle(req)
       /\ memo' = IF memo = None THEN None
                  ELSE Some([memo[1] EXCEPT !.since = @ + 1])

NextIdem == Remember \/ RequestIdem

SpecIdem == Init /\ [][NextIdem]_vars

\* ------------------------------------------------- the request, as given

\* What the last request presented, read from its headers and the loaded state.
Req == last[1].req
Out == last[1].out
HandlerCalled == "func" \in Range(Out.trace)

AccountGiven == /\ "x-auth-account" \in DOMAIN Req.headers
                /\ Req.headers["x-auth-account"] # <<>>
AccountFound == AccountGiven /\ Req.headers["x-auth-account"] \in DOMAIN account_model
TheAccount == account_model[Req.headers["x-auth-account"]]
RoleGiven == /\ "x-auth-role" \in DOMAIN Req.headers
             /\ Req.headers["x-auth-role"] # <<>>
RoleToken == Req.headers["x-auth-role"]
OwnerGiven == IF "x-auth-user" \in DOMAIN Req.headers
                THEN Some(Req.headers["x-auth-user"]) ELSE None
ResolveRaises == /\ use_operator_group
                 /\ subject_role(TheAccount, RoleToken).exc = "PermissionException"
ResolvedValue == IF use_operator_group
                   THEN subject_role(TheAccount, RoleToken).val ELSE RoleToken
RoleSet == {roles[n] : n \in DOMAIN roles}
RoleKnown == ResolvedValue \in RoleSet
KeySet == {policy[i][1] : i \in DOMAIN policy}
PolicyOf(r) == policy[CHOOSE i \in DOMAIN policy : policy[i][1] = r][2]
IdentityPasses == AccountFound /\ RoleGiven /\ ~ResolveRaises /\ RoleKnown
HasDot(action) == \E i \in DOMAIN action : action[i] = "."

\* action is "o.p" with o a resource of role r that lists the permission p.
Permitted(r, action) ==
  \E o \in DOMAIN PolicyOf(r) :
    /\ "permissions" \in DOMAIN PolicyOf(r)[o]
    /\ \E p \in Range(PolicyOf(r)[o]["permissions"]) :
         "." \notin Range(p) /\ action = o \o <<".">> \o p

\* --------------------------------------------------------------- claims

\* C1: the handler is invoked, with a Subject, exactly when the account header is
\* non-empty, the account is found, the role header is non-empty, the resolved role
\* value r is in the role set, and the action's resource is a key of policy[r] that
\* lists the action's permission; the Subject then carries role r, the looked-up
\* account and the x-auth-user header as owner; otherwise no Subject is delivered.
C1_AllOrNothing ==
  last # None =>
    LET ok == IdentityPasses /\ Permitted(ResolvedValue, Req.action)
    IN /\ HandlerCalled <=> ok
       /\ ok => /\ Out.subject # None
                /\ Out.subject[1].role.value = ResolvedValue
                /\ Out.subject[1].account = TheAccount
                /\ Out.subject[1].owner = OwnerGiven
       /\ ~ok => Out.subject = None

C1_Witness ==
  /\ last # None
  /\ HandlerCalled
  /\ Out.subject # None
  /\ Out.subject[1].owner = Some(o1)
  /\ Req.action = act_uv_r

\* C4: the checks run in the order account header, account lookup, role header,
\* role resolution and membership, permission check; the first failing check ends
\* the call with its own failure and no later step is made.
C4_FirstFailureDecides ==
  last # None =>
    /\ ~AccountGiven => Out = Abort(401, MsgAccountRequired, <<>>)
    /\ (AccountGiven /\ ~AccountFound) =>
         Out = Abort(401, MsgAccountNotFound, <<"get_by_name">>)
    /\ (AccountFound /\ ~RoleGiven) =>
         Out = Abort(401, MsgRoleRequired, <<"get_by_name">>)
    /\ (AccountFound /\ RoleGiven /\ ResolveRaises) =>
         /\ Out.status = 403
         /\ Out.trace = <<"get_by_name", "subject_role">>
    /\ (AccountFound /\ RoleGiven /\ ~ResolveRaises /\ ~RoleKnown) =>
         /\ Out.trace[Len(Out.trace)] = "Roles"
         /\ Range(Out.trace) \cap {"policy.get", "Subject", "_check_permission", "func"} = {}
         /\ Out.status \notin {200, 403}
         /\ Out.status = 401 => Out.body = MsgRoleNotFound
    /\ IdentityPasses =>
         /\ "_check_permission" \in Range(Out.trace)
         /\ Out.status \in {200, 403, 500}
         /\ Out.status = 200 <=> Out.trace[Len(Out.trace)] = "func"

C4_Witness ==
  /\ last # None
  /\ AccountGiven /\ ~AccountFound /\ ~RoleGiven
  /\ Req.action = act_x_r
  /\ Out.body = MsgAccountNotFound

\* C7: with the operator-group flag off, subject_role is not invoked and the raw
\* role token is the value validated and used; with the flag on, the value is what
\* subject_role returns, and a PermissionException it raises ends the call with 403
\* and the exception's message, whatever the policy holds.
C7_OperatorGroupFlag ==
  (last # None /\ AccountFound /\ RoleGiven) =>
    LET called == "subject_role" \in Range(Out.trace)
        value == IF use_operator_group
                   THEN subject_role(TheAccount, RoleToken).val ELSE RoleToken
        raised == /\ use_operator_group
                  /\ subject_role(TheAccount, RoleToken).exc = "PermissionException"
    IN /\ called <=> use_operator_group
       /\ raised => Out.status = 403 /\ Out.body = subject_role(TheAccount, RoleToken).val
       /\ ~raised =>
            /\ "Subject" \in Range(Out.trace) <=> value \in RoleSet
            /\ Out.subject # None => Out.subject[1].role.value = value
            /\ Out.status = 403 =>
                 Out.body = <<"Access to ">> \o Req.action
                              \o <<" forbidden for role ">> \o upper(value)
       /\ ~use_operator_group => Out.body # denied

C7_Witness ==
  /\ last # None /\ AccountFound /\ RoleGiven
  /\ use_operator_group
  /\ ResolveRaises
  /\ Out.status = 403
  /\ Out.body = denied
  /\ DOMAIN roles # {}

\* C2: once account and role resolve to a role r of the role set, an action "o.p"
\* whose resource is not a key of policy[r], or whose permission is not listed
\* (an entry without a permissions list included), ends with 403 and nothing else.
C2_DeniedIsForbidden ==
  (last # None /\ IdentityPasses /\ HasDot(Req.action)
     /\ ~Permitted(ResolvedValue, Req.action)) =>
    Out.status = 403

\* C3: an absent or empty account header, an unknown account, an absent or empty
\* role header, and a role token that maps to a value outside the role set each
\* end with 401, never with 403, whatever the action.
C3_IdentityFailureIs401 ==
  (last # None /\ (~AccountFound \/ ~RoleGiven \/ (~ResolveRaises /\ ~RoleKnown))) =>
    Out.status = 401

\* C5: with an empty role set, every request with a valid account and a role token
\* (one the account's role resolution does not refuse) ends with 401: not 403, not
\* an unhandled error, not the handler.
C5_EmptyRolesIs401 ==
  (last # None /\ DOMAIN roles = {} /\ policy = <<>>
     /\ AccountFound /\ RoleGiven /\ ~ResolveRaises) =>
    Out.status = 401

\* C9: for an action without "." a request that passes the identity steps ends in
\* an unhandled error and not in 401, 403 or the handler; a request that fails an
\* identity step ends with that step's 401 or 403.
C9_NoSeparator ==
  (last # None /\ ~HasDot(Req.action)) =>
    /\ IdentityPasses => /\ Out.status = 500
                         /\ Out.exc = "ValueError"
                         /\ "_check_permission" \in Range(Out.trace)
                         /\ ~HandlerCalled
    /\ ~IdentityPasses => Out.status \in {401, 403}

\* C10: the role set holds one role per top-level key of the roles mapping, named
\* by the upper-cased key and carrying the key as its value; a resolved role value
\* is accepted exactly when it is one of those keys; the policy of an accepted role
\* is that key's own entry; and the role set stays as load_config left it.
C10_OneRolePerKey ==
  /\ Cardinality(DOMAIN roles) = Len(policy)
  /\ RoleSet = KeySet
  /\ \A n \in DOMAIN roles : n = upper(roles[n])
  /\ roles = loaded.roles
  /\ (last # None /\ AccountFound /\ RoleGiven /\ ~ResolveRaises) =>
       /\ "Subject" \in Range(Out.trace) <=> ResolvedValue \in KeySet
       /\ Out.subject # None => Out.subject[1].policy = PolicyOf(ResolvedValue)

\* The attributes the claim C6 lists.
ListedAttrs == {"account", "account_id", "account_name", "role", "owner"}

\* The value of a Subject attribute, from what the request presented.
ExpectedAttr(name) ==
  CASE name = "account" -> <<"RbacAccount", TheAccount>>
    [] name = "account_id" -> <<"int", TheAccount.id>>
    [] name = "account_name" -> <<"str", Req.headers["x-auth-account"]>>
    [] name = "role" -> <<"Roles", [name |-> upper(ResolvedValue), value |-> ResolvedValue]>>
    [] name = "owner" -> <<"Optional[str]", OwnerGiven>>
    [] name = "policy" -> <<"dict", PolicyOf(ResolvedValue)>>
    [] name = "filters" -> <<"method", "Subject.filters">>

\* filters returned a mapping with the keys of f, each the value of the attribute f names.
FiltersReturned(res, f) ==
  /\ res.exc = "none"
  /\ DOMAIN res.val[1] = DOMAIN f
  /\ \A k \in DOMAIN f : res.val[1][k] = ExpectedAttr(f[k])

\* C6 as stated: for a resource of the Subject's policy, filters returns the keys of
\* the entry's filters, each mapped to the named attribute's value; it fails when the
\* resource is absent or a named attribute is not one of account, account_id,
\* account_name, role, owner.
C6_FiltersListedAttrs ==
  fres # None =>
    LET o == fres[1].object_name
        pol == PolicyOf(ResolvedValue)
    IN IF o \notin DOMAIN pol THEN fres[1].res.exc # "none"
       ELSE "filters" \in DOMAIN pol[o] =>
              IF \E k \in DOMAIN pol[o]["filters"] : pol[o]["filters"][k] \notin ListedAttrs
                THEN fres[1].res.exc # "none"
                ELSE FiltersReturned(fres[1].res, pol[o]["filters"])

\* C6 amended: filters fails when the resource is absent, when its entry has no
\* filters mapping, or when a named attribute is not an attribute of the Subject
\* object; policy and the method filters are attributes as much as the five listed.
\* Otherwise it returns exactly the keys of the entry's filters, each mapped to the
\* named attribute's value.
C6_FiltersSubjectAttrs ==
  fres # None =>
    LET o == fres[1].object_name
        pol == PolicyOf(ResolvedValue)
    IN IF o \notin DOMAIN pol \/ "filters" \notin DOMAIN pol[o]
         THEN fres[1].res.exc = "KeyError"
       ELSE IF \E k \in DOMAIN pol[o]["filters"] :
                 pol[o]["filters"][k] \notin ListedAttrs \cup {"policy", "filters"}
         THEN fres[1].res.exc = "AttributeError"
         ELSE FiltersReturned(fres[1].res, pol[o]["filters"])

C6_Witness ==
  /\ fres # None
  /\ fres[1].res.exc = "none"
  /\ DOMAIN fres[1].res.val[1] = {"scope"}
  /\ fres[1].res.val[1]["scope"] = <<"dict", OddResources>>

====
